---- MODULE Spec2Model ----
\* A model of generate_icons.py: the import guard, create_icon(size) drawn one
\* call at a time on a pixel raster, and main() creating the icons directory
\* and saving the three PNG files.  The script may be invoked several times in
\* a row on the same filesystem.
EXTENDS Integers, Sequences, FiniteSets, TLC

VARIABLES
    dep,        \* TRUE iff "from PIL import Image, ImageDraw, ImageFont" succeeds
    pc,         \* position of the running script
    idx,        \* position of the for loop of main() in sizes (0 before the loop)
    size,       \* the argument of the running create_icon call / loop variable
    img,        \* the image create_icon is drawing, then main's img
    calls,      \* the drawing calls made on img so far, in order
    fs,         \* the filesystem: path -> entry
    fsStart,    \* the filesystem when the running invocation started
    written,    \* paths this invocation's img.save calls have written
    stdout,     \* lines printed by this invocation
    log,        \* operations main() has completed in this invocation, in order
    exitCode,   \* exit status of the invocation, NoExit while it runs
    uncaught,   \* the exception that ended the invocation uncaught, or "none"
    run,        \* number of the running invocation
    prevExit,   \* exit status of the previous invocation, NoExit for the first
    firstGood   \* <<fs>> as the first invocation that exited 0 left it, else <<>>

vars == <<dep, pc, idx, size, img, calls, fs, fsStart, written, stdout, log,
          exitCode, uncaught, run, prevExit, firstGood>>

\* Number of consecutive invocations of the script that are explored.
MaxRuns == 3

NoExit == -1

--------------------------------------------------------------------------
\* Program constants

sizes == <<16, 48, 128>>

Background == <<46, 182, 125, 255>>

White == <<255, 255, 255, 255>>

IconsDir == "icons"

\* f"icons/icon{size}.png"
filename(s) == "icons/icon" \o ToString(s) \o ".png"

IconFiles == {filename(sizes[i]) : i \in 1..Len(sizes)}

\* A file in the icons directory that the script does not know about.
OtherFile == "icons/README.txt"

Paths == {IconsDir, OtherFile} \cup IconFiles

--------------------------------------------------------------------------
\* Geometry of create_icon, as the source computes it (// is \div)

Max(a, b) == IF a >= b THEN a ELSE b

Min(a, b) == IF a <= b THEN a ELSE b

\* int(r * 0.7): the double product truncated.  It equals floor(7r/10) for
\* every r in 0..89 (it first differs at r = 90), which covers size // 3 for
\* every size below 270.
IntTimes07(r) == (7 * r) \div 10

padding(s) == s \div 6

circle_radius(s) == s \div 3

circle_x(s) == s \div 2 - padding(s) \div 2

circle_y(s) == s \div 2 - padding(s) \div 2

outline_width(s) == Max(2, s \div 16)

\* Variant: half the size instead of a quarter.
handle_length_half(s) == s \div 2

handle_length(s) == s \div 4

handle_start_x(s) == circle_x(s) + IntTimes07(circle_radius(s))

handle_start_y(s) == circle_y(s) + IntTimes07(circle_radius(s))

arrow_size(s) == s \div 6

arrow_x(s) == circle_x(s)

arrow_y(s) == circle_y(s)

body_width(s) == Max(1, s \div 24)

\* The four drawing calls of create_icon(s), with the arguments they pass.
EllipseCall(s) ==
    [shape |-> "ellipse",
     xy |-> <<circle_x(s) - circle_radius(s), circle_y(s) - circle_radius(s),
              circle_x(s) + circle_radius(s), circle_y(s) + circle_radius(s)>>,
     ink |-> White,
     width |-> outline_width(s)]

\* Variant: the handle is drawn in opaque black.
HandleCall_black(s) ==
    [shape |-> "line",
     xy |-> <<handle_start_x(s), handle_start_y(s),
              handle_start_x(s) + handle_length(s),
              handle_start_y(s) + handle_length(s)>>,
     ink |-> <<0, 0, 0, 255>>,
     width |-> outline_width(s)]

HandleCall(s) ==
    [shape |-> "line",
     xy |-> <<handle_start_x(s), handle_start_y(s),
              handle_start_x(s) + handle_length(s),
              handle_start_y(s) + handle_length(s)>>,
     ink |-> White,
     width |-> outline_width(s)]

ArrowBodyCall(s) ==
    [shape |-> "line",
     xy |-> <<arrow_x(s), arrow_y(s) - arrow_size(s) \div 2,
              arrow_x(s), arrow_y(s) + arrow_size(s) \div 2>>,
     ink |-> White,
     width |-> body_width(s)]

ArrowHeadCall(s) ==
    [shape |-> "polygon",
     xy |-> <<arrow_x(s), arrow_y(s) + arrow_size(s) \div 2 + s \div 16,
              arrow_x(s) - arrow_size(s) \div 3, arrow_y(s) + arrow_size(s) \div 4,
              arrow_x(s) + arrow_size(s) \div 3, arrow_y(s) + arrow_size(s) \div 4>>,
     ink |-> White,
     width |-> 0]

--------------------------------------------------------------------------
\* The raster: Image.new and the pixels a drawing call covers

PixelsOf(w, h) == (0 .. w - 1) \X (0 .. h - 1)

\* Pixel data is kept as the colour the image was filled with and the colour
\* of every pixel written since (over); PixelAt reads a pixel.
NoPixels == [fill |-> <<>>, over |-> [p \in {} |-> <<>>]]

PixelAt(image, p) ==
    IF p \in DOMAIN image.pixels.over THEN image.pixels.over[p]
                                      ELSE image.pixels.fill

NoImage == [mode |-> "none", width |-> 0, height |-> 0, pixels |-> NoPixels]

\* Variant: the image is made without an alpha channel.
ImageNew_rgb(mode, w, h, colour) ==
    [mode |-> "RGB", width |-> w, height |-> h,
     pixels |-> [fill |-> colour, over |-> [p \in {} |-> <<>>]]]

\* Image.new(mode, (w, h), colour): every pixel has the colour.
ImageNew(mode, w, h, colour) ==
    [mode |-> mode, width |-> w, height |-> h,
     pixels |-> [fill |-> colour, over |-> [p \in {} |-> <<>>]]]

\* Pixels between the ellipse inscribed in the box xy and the one inscribed
\* in the box shrunk by width on every side (coordinates doubled, so that the
\* centre is integral).
InEllipse(p, x0, y0, x1, y1) ==
    LET a == x1 - x0
        b == y1 - y0
        dx == 2 * p[1] - (x0 + x1)
        dy == 2 * p[2] - (y0 + y1)
    IN  /\ a >= 0
        /\ b >= 0
        /\ dx * dx * b * b + dy * dy * a * a <= a * a * b * b

OnEllipseOutline(p, xy, width) ==
    /\ InEllipse(p, xy[1], xy[2], xy[3], xy[4])
    /\ ~ /\ xy[3] - xy[1] > 2 * width
         /\ xy[4] - xy[2] > 2 * width
         /\ InEllipse(p, xy[1] + width, xy[2] + width, xy[3] - width, xy[4] - width)

\* Pixels within width/2 of the segment from (xy[1], xy[2]) to (xy[3], xy[4]).
OnLine(p, xy, width) ==
    LET vx == xy[3] - xy[1]
        vy == xy[4] - xy[2]
        l2 == vx * vx + vy * vy
        t  == (p[1] - xy[1]) * vx + (p[2] - xy[2]) * vy
        c  == (p[1] - xy[1]) * vy - (p[2] - xy[2]) * vx
    IN  IF l2 = 0
        THEN p = <<xy[1], xy[2]>>
        ELSE /\ t >= 0
             /\ t <= l2
             /\ 4 * c * c <= width * width * l2

\* Pixels inside or on the triangle with the three vertices of xy.
Cross(ax, ay, bx, by, p) == (bx - ax) * (p[2] - ay) - (by - ay) * (p[1] - ax)

InPolygon(p, xy) ==
    LET c1 == Cross(xy[1], xy[2], xy[3], xy[4], p)
        c2 == Cross(xy[3], xy[4], xy[5], xy[6], p)
        c3 == Cross(xy[5], xy[6], xy[1], xy[2], p)
    IN  /\ p[1] >= Min(xy[1], Min(xy[3], xy[5]))
        /\ p[1] <= Max(xy[1], Max(xy[3], xy[5]))
        /\ p[2] >= Min(xy[2], Min(xy[4], xy[6]))
        /\ p[2] <= Max(xy[2], Max(xy[4], xy[6]))
        /\ \/ (c1 >= 0 /\ c2 >= 0 /\ c3 >= 0)
           \/ (c1 <= 0 /\ c2 <= 0 /\ c3 <= 0)

\* The pixels of a w x h image inside the bounding box of a call's
\* coordinates grown by its width: no pixel outside it is covered.
Candidates(call, w, h) ==
    LET xs == {call.xy[j] : j \in {k \in 1..Len(call.xy) : k % 2 = 1}}
        ys == {call.xy[j] : j \in {k \in 1..Len(call.xy) : k % 2 = 0}}
        lo(S) == CHOOSE a \in S : \A b \in S : a <= b
        hi(S) == CHOOSE a \in S : \A b \in S : a >= b
    IN  (Max(0, lo(xs) - call.width) .. Min(w - 1, hi(xs) + call.width))
        \X (Max(0, lo(ys) - call.width) .. Min(h - 1, hi(ys) + call.width))

\* The pixels of a w x h image that a drawing call covers (the library clips
\* a shape to the image).
Covered(call, w, h) ==
    {p \in Candidates(call, w, h) :
        CASE call.shape = "ellipse" -> OnEllipseOutline(p, call.xy, call.width)
          [] call.shape = "line"    -> OnLine(p, call.xy, call.width)
          [] call.shape = "polygon" -> InPolygon(p, call.xy)}

\* A drawing call writes its ink to every pixel it covers and to no other.
Draw(image, call) ==
    LET cov == Covered(call, image.width, image.height)
    IN  [image EXCEPT !.pixels.over =
            [p \in (DOMAIN image.pixels.over) \cup cov |->
                IF p \in cov THEN call.ink ELSE image.pixels.over[p]]]

\* The pixels some call of cs covers.
Touched(cs, w, h) == UNION {Covered(cs[i], w, h) : i \in 1..Len(cs)}

--------------------------------------------------------------------------
\* The filesystem

Absent == [kind |-> "absent"]

Dir == [kind |-> "dir"]

File(content) == [kind |-> "file", content |-> content]

\* Content of a file that is no output of this script.
Stale ==
    [format |-> "other", mode |-> "none", width |-> 0, height |-> 0,
     pixels |-> NoPixels]

\* Content left behind by a save that failed while writing.
Truncated ==
    [format |-> "truncated", mode |-> "none", width |-> 0, height |-> 0,
     pixels |-> NoPixels]

\* img.save(filename, 'PNG'): PNG is lossless, the file holds the mode, the
\* dimensions and every pixel of the image.
PNGEncode(image) ==
    [format |-> "PNG", mode |-> image.mode, width |-> image.width,
     height |-> image.height, pixels |-> image.pixels]

\* The filesystems an invocation may start from: no icons entry, a regular
\* file named icons, or a directory holding any subset of the four files.
InitialFS ==
    {f \in [Paths -> {Absent, Dir, File(Stale)}] :
        /\ f[IconsDir] # Dir => \A q \in Paths \ {IconsDir} : f[q] = Absent
        /\ \A q \in Paths \ {IconsDir} : f[q] # Dir}

--------------------------------------------------------------------------
\* The script

ImportErrorLines ==
    <<"Pillow is required. Install with: pip install Pillow",
      "\nAlternatively, you can create icons manually:",
      "- icon16.png (16x16 pixels)",
      "- icon48.png (48x48 pixels)",
      "- icon128.png (128x128 pixels)">>

SuccessLines ==
    <<"\nIcons generated successfully!",
      "You can now load the extension in Chrome.">>

Init ==
    /\ dep \in BOOLEAN
    /\ fs \in InitialFS
    /\ fsStart = fs
    /\ pc = "import"
    /\ idx = 0
    /\ size = 0
    /\ img = NoImage
    /\ calls = <<>>
    /\ written = {}
    /\ stdout = <<>>
    /\ log = <<>>
    /\ exitCode = NoExit
    /\ uncaught = "none"
    /\ run = 1
    /\ prevExit = NoExit
    /\ firstGood = <<>>

\* Variant: the exception ends the run, but with exit status 0.
Raise_exit0(exc) ==
    /\ uncaught' = exc
    /\ exitCode' = 0
    /\ pc' = "exited"

\* An exception nobody catches: the interpreter prints the traceback to
\* stderr and exits with status 1.
Raise(exc) ==
    /\ uncaught' = exc
    /\ exitCode' = 1
    /\ pc' = "exited"

\* Variant: the except branch prints the guidance and forgets exit(1).
ImportFails_no_exit ==
    /\ pc = "import"
    /\ ~dep
    /\ stdout' = stdout \o ImportErrorLines
    /\ pc' = "makedirs"
    /\ UNCHANGED <<dep, idx, size, img, calls, fs, fsStart, written, log,
                   exitCode, uncaught, run, prevExit, firstGood>>

\* Lines 9-17, the import fails: the except branch prints and calls exit(1).
ImportFails ==
    /\ pc = "import"
    /\ ~dep
    /\ stdout' = stdout \o ImportErrorLines
    /\ exitCode' = 1
    /\ pc' = "exited"
    /\ UNCHANGED <<dep, idx, size, img, calls, fs, fsStart, written, log,
                   uncaught, run, prevExit, firstGood>>

\* Lines 9-10 and 85-86, the import succeeds: the script reaches main().
ImportOk ==
    /\ pc = "import"
    /\ dep
    /\ pc' = "makedirs"
    /\ UNCHANGED <<dep, idx, size, img, calls, fs, fsStart, written, stdout, log,
                   exitCode, uncaught, run, prevExit, firstGood>>

\* os.makedirs("icons", exist_ok=True), no icons entry: the directory is made.
MakedirsCreates ==
    /\ pc = "makedirs"
    /\ fs[IconsDir] = Absent
    /\ fs' = [fs EXCEPT ![IconsDir] = Dir]
    /\ log' = Append(log, <<"makedirs", 0>>)
    /\ pc' = "for"
    /\ UNCHANGED <<dep, idx, size, img, calls, fsStart, written, stdout,
                   exitCode, uncaught, run, prevExit, firstGood>>

\* Variant: os.makedirs("icons") without exist_ok raises on a directory.
MakedirsExists_raises ==
    /\ pc = "makedirs"
    /\ fs[IconsDir] = Dir
    /\ Raise("OSError")
    /\ UNCHANGED <<dep, idx, size, img, calls, fs, fsStart, written, stdout, log,
                   run, prevExit, firstGood>>

\* os.makedirs("icons", exist_ok=True), icons is a directory: nothing to do.
MakedirsExists ==
    /\ pc = "makedirs"
    /\ fs[IconsDir] = Dir
    /\ log' = Append(log, <<"makedirs", 0>>)
    /\ pc' = "for"
    /\ UNCHANGED <<dep, idx, size, img, calls, fs, fsStart, written, stdout,
                   exitCode, uncaught, run, prevExit, firstGood>>

\* os.makedirs raises: icons is a regular file (FileExistsError), or the
\* directory cannot be made (PermissionError, read-only filesystem).
MakedirsFails ==
    /\ pc = "makedirs"
    /\ fs[IconsDir] # Dir
    /\ Raise("OSError")
    /\ UNCHANGED <<dep, idx, size, img, calls, fs, fsStart, written, stdout, log,
                   run, prevExit, firstGood>>

\* Variant: the loop walks the list from its end.
ForNext_reversed ==
    /\ pc = "for"
    /\ idx < Len(sizes)
    /\ idx' = idx + 1
    /\ size' = sizes[Len(sizes) - idx]
    /\ pc' = "new"
    /\ UNCHANGED <<dep, img, calls, fs, fsStart, written, stdout, log,
                   exitCode, uncaught, run, prevExit, firstGood>>

\* for size in sizes: the next element.
ForNext ==
    /\ pc = "for"
    /\ idx < Len(sizes)
    /\ idx' = idx + 1
    /\ size' = sizes[idx + 1]
    /\ pc' = "new"
    /\ UNCHANGED <<dep, img, calls, fs, fsStart, written, stdout, log,
                   exitCode, uncaught, run, prevExit, firstGood>>

\* for size in sizes: the list is exhausted.
ForEnd ==
    /\ pc = "for"
    /\ idx >= Len(sizes)
    /\ pc' = "finish"
    /\ UNCHANGED <<dep, idx, size, img, calls, fs, fsStart, written, stdout, log,
                   exitCode, uncaught, run, prevExit, firstGood>>

\* create_icon, lines 22-23: a fresh RGBA image and a draw object on it.
CreateIconNew ==
    /\ pc = "new"
    /\ img' = ImageNew("RGBA", size, size, Background)
    /\ calls' = <<>>
    /\ pc' = "ellipse"
    /\ UNCHANGED <<dep, idx, size, fs, fsStart, written, stdout, log,
                   exitCode, uncaught, run, prevExit, firstGood>>

\* One drawing call of create_icon: at position here, make the call, go to next.
DrawStep(here, call, next) ==
    /\ pc = here
    /\ img' = Draw(img, call)
    /\ calls' = Append(calls, call)
    /\ pc' = next
    /\ UNCHANGED <<dep, idx, size, fs, fsStart, written, stdout, log,
                   exitCode, uncaught, run, prevExit, firstGood>>

DrawCircle == DrawStep("ellipse", EllipseCall(size), "handle")

DrawHandle == DrawStep("handle", HandleCall(size), "arrow_body")

DrawArrowBody == DrawStep("arrow_body", ArrowBodyCall(size), "arrow_head")

DrawArrowHead == DrawStep("arrow_head", ArrowHeadCall(size), "return")

\* return img, and main's img = create_icon(size).
CreateIconReturn ==
    /\ pc = "return"
    /\ log' = Append(log, <<"create_icon", size>>)
    /\ pc' = "save"
    /\ UNCHANGED <<dep, idx, size, img, calls, fs, fsStart, written, stdout,
                   exitCode, uncaught, run, prevExit, firstGood>>

\* Variant: a file that is already there is kept instead of overwritten.
SaveOk_skip_existing ==
    /\ pc = "save"
    /\ fs' = IF fs[filename(size)] = Absent
             THEN [fs EXCEPT ![filename(size)] = File(PNGEncode(img))]
             ELSE fs
    /\ written' = written \cup {filename(size)}
    /\ log' = Append(log, <<"save", size>>)
    /\ pc' = "print"
    /\ UNCHANGED <<dep, idx, size, img, calls, fsStart, stdout,
                   exitCode, uncaught, run, prevExit, firstGood>>

\* img.save(filename, 'PNG') succeeds: the file holds the encoded image.
SaveOk ==
    /\ pc = "save"
    /\ fs' = [fs EXCEPT ![filename(size)] = File(PNGEncode(img))]
    /\ written' = written \cup {filename(size)}
    /\ log' = Append(log, <<"save", size>>)
    /\ pc' = "print"
    /\ UNCHANGED <<dep, idx, size, img, calls, fsStart, stdout,
                   exitCode, uncaught, run, prevExit, firstGood>>

\* Variant: "Created ..." is printed before the save is attempted.
SaveFails_after_print ==
    /\ pc = "save"
    /\ \E after \in {fs[filename(size)], File(Truncated)} :
           fs' = [fs EXCEPT ![filename(size)] = after]
    /\ stdout' = Append(stdout, "Created " \o filename(size))
    /\ Raise("OSError")
    /\ UNCHANGED <<dep, idx, size, img, calls, fsStart, written, log,
                   run, prevExit, firstGood>>

\* img.save raises OSError.  The file cannot be opened (the entry is as it
\* was), or writing fails after the file was opened and truncated (a new file
\* is removed again or left truncated, an old one is left truncated).
SaveFails ==
    /\ pc = "save"
    /\ \E after \in {fs[filename(size)], File(Truncated)} :
           fs' = [fs EXCEPT ![filename(size)] = after]
    /\ Raise("OSError")
    /\ UNCHANGED <<dep, idx, size, img, calls, fsStart, written, stdout, log,
                   run, prevExit, firstGood>>

\* print(f"Created {filename}")
PrintCreated ==
    /\ pc = "print"
    /\ stdout' = Append(stdout, "Created " \o filename(size))
    /\ log' = Append(log, <<"print", size>>)
    /\ pc' = "for"
    /\ UNCHANGED <<dep, idx, size, img, calls, fs, fsStart, written,
                   exitCode, uncaught, run, prevExit, firstGood>>

\* Lines 82-83, then main() returns and the interpreter exits with status 0.
Finish ==
    /\ pc = "finish"
    /\ stdout' = stdout \o SuccessLines
    /\ log' = Append(log, <<"success", 0>>)
    /\ exitCode' = 0
    /\ pc' = "exited"
    /\ firstGood' = IF firstGood = <<>> THEN <<fs>> ELSE firstGood
    /\ UNCHANGED <<dep, idx, size, img, calls, fs, fsStart, written,
                   uncaught, run, prevExit>>

\* The script is invoked again, on the filesystem the last invocation left.
NextInvocation ==
    /\ pc = "exited"
    /\ run < MaxRuns
    /\ run' = run + 1
    /\ prevExit' = exitCode
    /\ fsStart' = fs
    /\ pc' = "import"
    /\ idx' = 0
    /\ size' = 0
    /\ img' = NoImage
    /\ calls' = <<>>
    /\ written' = {}
    /\ stdout' = <<>>
    /\ log' = <<>>
    /\ exitCode' = NoExit
    /\ uncaught' = "none"
    /\ UNCHANGED <<dep, fs, firstGood>>

Next ==
    \/ ImportFails
    \/ ImportOk
    \/ MakedirsCreates
    \/ MakedirsExists
    \/ MakedirsFails
    \/ ForNext
    \/ ForEnd
    \/ CreateIconNew
    \/ DrawCircle
    \/ DrawHandle
    \/ DrawArrowBody
    \/ DrawArrowHead
    \/ CreateIconReturn
    \/ SaveOk
    \/ SaveFails
    \/ PrintCreated
    \/ Finish
    \/ NextInvocation

Spec == Init /\ [][Next]_vars

\* The steps of one invocation.  The interpreter runs the script statement
\* after statement and no statement waits for anything, so an invocation
\* that can take a step takes it; whether the script is invoked again is up
\* to the user.
Step ==
    \/ ImportFails
    \/ ImportOk
    \/ MakedirsCreates
    \/ MakedirsExists
    \/ MakedirsFails
    \/ ForNext
    \/ ForEnd
    \/ CreateIconNew
    \/ DrawCircle
    \/ DrawHandle
    \/ DrawArrowBody
    \/ DrawArrowHead
    \/ CreateIconReturn
    \/ SaveOk
    \/ SaveFails
    \/ PrintCreated
    \/ Finish

FairSpec == Spec /\ WF_vars(Step)

--------------------------------------------------------------------------
\* Properties

IsPrefix(s, t) == Len(s) <= Len(t) /\ \A k \in 1..Len(s) : s[k] = t[k]

\* The operations of a complete main(), in program order.
FullLog ==
    [k \in 1 .. 3 * Len(sizes) + 2 |->
        IF k = 1 THEN <<"makedirs", 0>>
        ELSE IF k = 3 * Len(sizes) + 2 THEN <<"success", 0>>
        ELSE << <<"create_icon", "save", "print">>[((k - 2) % 3) + 1],
                sizes[((k - 2) \div 3) + 1] >>]

CreatedLines(n) == [i \in 1..n |-> "Created " \o filename(sizes[i])]

Succeeded == pc = "exited" /\ exitCode = 0

IsIcon(entry, s) ==
    /\ entry.kind = "file"
    /\ entry.content.format = "PNG"
    /\ entry.content.mode = "RGBA"
    /\ entry.content.width = s
    /\ entry.content.height = s

\* C1: after a run of main() in which the import and every save succeed,
\* each icons/iconS.png holds an RGBA PNG of S x S pixels, what was saved for
\* size S is the finished image create_icon(S) returned, and the files the
\* run wrote are exactly the three icon files.
C1_IconsWritten ==
    /\ Succeeded =>
          /\ \A i \in 1..Len(sizes) : IsIcon(fs[filename(sizes[i])], sizes[i])
          /\ written = {"icons/icon16.png", "icons/icon48.png", "icons/icon128.png"}
          /\ fs[IconsDir] = Dir
    /\ pc = "print" =>
          /\ fs[filename(size)] = File(PNGEncode(img))
          /\ Len(calls) = 4
          /\ img.width = size
          /\ img.height = size
          /\ img.mode = "RGBA"

C1_Witness ==
    /\ Succeeded
    /\ run = 1
    /\ fsStart[IconsDir] = Absent
    /\ fs["icons/icon128.png"].kind = "file"

\* C2: when the import fails, the script prints the guidance and exits with
\* status 1 without reaching main(): the filesystem stays as it was and no
\* "Created ..." line is printed.
C2_ImportFailure ==
    ~dep =>
        /\ pc \in {"import", "exited"}
        /\ fs = fsStart
        /\ written = {}
        /\ log = <<>>
        /\ \A k \in 1..Len(stdout) : \A i \in 1..Len(sizes) :
               stdout[k] # "Created " \o filename(sizes[i])
        /\ pc = "exited" => exitCode = 1 /\ stdout = ImportErrorLines

C2_Witness ==
    /\ ~dep
    /\ pc = "exited"
    /\ exitCode = 1
    /\ fs[IconsDir] = Absent

\* C3, as claimed: the exit code is 1 if the import fails and 0 otherwise,
\* whatever happens during makedirs and the saves.
C3_Original == pc = "exited" => exitCode = (IF dep THEN 0 ELSE 1)

\* C3, amended: the exit code is 1 if the import fails; if it succeeds the
\* exit code is 0 when makedirs and the three saves succeed and 1 when one of
\* them raises.
C3_ExitCode ==
    pc = "exited" =>
        /\ exitCode \in {0, 1}
        /\ ~dep => exitCode = 1 /\ uncaught = "none"
        /\ dep /\ uncaught = "none" => exitCode = 0 /\ log = FullLog
        /\ dep /\ uncaught # "none" => exitCode = 1 /\ log # FullLog

C3_Witness ==
    /\ pc = "exited"
    /\ dep
    /\ uncaught = "OSError"
    /\ exitCode = 1
    /\ idx = 2

\* C4: makedirs is idempotent.  Once it has returned the directory exists; if
\* the directory was there it does not raise and nothing changes; the files
\* of the directory that are no icon files are never changed; and a
\* successful run right after a successful run leaves the filesystem as it
\* found it.
C4_Idempotent ==
    /\ fs[OtherFile] = fsStart[OtherFile]
    /\ Len(log) >= 1 => fs[IconsDir] = Dir
    /\ fsStart[IconsDir] = Dir =>
          /\ fs[IconsDir] = Dir
          /\ ~(uncaught # "none" /\ log = <<>>)
          /\ Len(log) = 1 => fs = fsStart
    /\ Succeeded /\ prevExit = 0 => fs = fsStart

C4_Witness ==
    /\ Succeeded
    /\ prevExit = 0
    /\ run = 2
    /\ fs[OtherFile] = File(Stale)

\* C5: a save that fails is not caught.  The run ends there with the
\* exception: the files of the earlier sizes are written, no file of a later
\* size is touched, "Created" is printed for the earlier sizes only and the
\* success message is not printed.
C5_SaveFailure ==
    pc = "exited" /\ uncaught # "none" /\ idx >= 1 =>
        /\ uncaught = "OSError"
        /\ exitCode = 1
        /\ log = SubSeq(FullLog, 1, 3 * idx - 1)
        /\ written = {filename(sizes[i]) : i \in 1 .. idx - 1}
        /\ \A i \in 1 .. idx - 1 : IsIcon(fs[filename(sizes[i])], sizes[i])
        /\ \A i \in idx + 1 .. Len(sizes) :
               fs[filename(sizes[i])] = fsStart[filename(sizes[i])]
        /\ stdout = CreatedLines(idx - 1)

C5_Witness ==
    /\ pc = "exited"
    /\ uncaught = "OSError"
    /\ idx = 2
    /\ fs["icons/icon48.png"] = File(Truncated)
    /\ fsStart["icons/icon128.png"] = File(Stale)

\* C6: in the image create_icon returns, every pixel some drawing call covers
\* is opaque white and every other pixel has the background colour; every
\* drawing call draws in opaque white.
C6_TwoColours ==
    pc = "save" =>
        LET touched == Touched(calls, img.width, img.height)
        IN  /\ Len(calls) = 4
            /\ \A i \in 1..Len(calls) : calls[i].ink = <<255, 255, 255, 255>>
            /\ \A p \in PixelsOf(img.width, img.height) :
                   /\ PixelAt(img, p) \in {<<255, 255, 255, 255>>, <<46, 182, 125, 255>>}
                   /\ p \in touched => PixelAt(img, p) = <<255, 255, 255, 255>>
                   /\ p \notin touched => PixelAt(img, p) = <<46, 182, 125, 255>>

C6_Witness ==
    /\ pc = "save"
    /\ size = 128
    /\ PixelAt(img, <<0, 0>>) = <<46, 182, 125, 255>>
    /\ PixelAt(img, <<54, 60>>) = <<255, 255, 255, 255>>
    /\ PixelAt(img, <<100, 100>>) = <<255, 255, 255, 255>>

\* C7: the script is deterministic.  Every successful run leaves in each icon
\* file the content the first successful run left there, whatever the
\* filesystem was when it started, and the image it is about to save for a
\* size is the one the first successful run saved for it.
C7_Deterministic ==
    firstGood # <<>> =>
        /\ Succeeded =>
              \A i \in 1..Len(sizes) :
                 /\ fs[filename(sizes[i])] = firstGood[1][filename(sizes[i])]
                 /\ IsIcon(fs[filename(sizes[i])], sizes[i])
        /\ pc = "save" =>
              File(PNGEncode(img)) = firstGood[1][filename(size)]

C7_Witness ==
    /\ Succeeded
    /\ run = 3
    /\ prevExit = 1
    /\ firstGood # <<>>
    /\ fsStart["icons/icon48.png"] = File(Truncated)
    /\ fs = firstGood[1]

\* C8, as claimed, its last part: the run always terminates after exactly
\* three iterations.
C8_Original == pc = "exited" /\ dep => idx = 3

\* The order of main(): the log is a prefix of the full program order, each
\* position of the loop has the log of everything before it, stdout holds the
\* "Created" lines of the sizes done, and the success lines come last.
C8_Order ==
    /\ IsPrefix(log, FullLog)
    /\ idx <= 3
    /\ pc \in {"new", "ellipse", "handle", "arrow_body", "arrow_head", "return"} =>
          /\ fs[IconsDir] = Dir
          /\ size = sizes[idx]
          /\ log = SubSeq(FullLog, 1, 3 * idx - 2)
    /\ pc = "save" => log = SubSeq(FullLog, 1, 3 * idx - 1)
    /\ pc = "print" => log = SubSeq(FullLog, 1, 3 * idx)
    /\ pc = "for" => log = SubSeq(FullLog, 1, 3 * idx + 1)
    /\ \E n \in 0..idx :
          \/ stdout = CreatedLines(n)
          \/ stdout = CreatedLines(n) \o SuccessLines /\ n = 3
          \/ stdout = ImportErrorLines
    /\ Len(stdout) > 3 /\ dep => written = IconFiles /\ log = FullLog
    /\ Succeeded => idx = 3 /\ log = FullLog

\* C8, amended: main() works through the sizes in the order 16, 48, 128.
\* The directory is made first; for each size the image is generated, saved
\* and reported before the next size is begun; the success message comes
\* after the three saves; every run terminates, after at most three
\* iterations, and after exactly three when makedirs and every save succeed.
C8_Sequential ==
    /\ []C8_Order
    /\ (pc = "import") ~> (pc = "exited")

C8_Witness ==
    /\ Succeeded
    /\ log = <<<<"makedirs", 0>>,
               <<"create_icon", 16>>, <<"save", 16>>, <<"print", 16>>,
               <<"create_icon", 48>>, <<"save", 48>>, <<"print", 48>>,
               <<"create_icon", 128>>, <<"save", 128>>, <<"print", 128>>,
               <<"success", 0>>>>

\* C9: every coordinate create_icon passes to a drawing call lies inside the
\* image, in 0 .. size - 1.
C9_InBounds ==
    \A i \in 1..Len(calls) : \A j \in 1..Len(calls[i].xy) :
        /\ calls[i].xy[j] >= 0
        /\ calls[i].xy[j] <= size - 1

C9_Witness ==
    /\ pc = "save"
    /\ size = 16
    /\ calls[2].xy = <<10, 10, 14, 14>>

\* C10, as claimed: the arrow head is a proper triangle (three distinct
\* vertices that are not collinear, a base of half-width at least 1 with the
\* tip strictly below it) and the arrow body and head lie strictly inside
\* the inner edge of the circle outline.
Dist2(x, y, s) ==
    (x - circle_x(s)) * (x - circle_x(s)) + (y - circle_y(s)) * (y - circle_y(s))

C10_ProperArrow ==
    pc = "save" =>
        LET body == calls[3].xy
            head == calls[4].xy
            inner == circle_radius(size) - calls[1].width
        IN  /\ <<head[1], head[2]>> # <<head[3], head[4]>>
            /\ <<head[3], head[4]>> # <<head[5], head[6]>>
            /\ <<head[1], head[2]>> # <<head[5], head[6]>>
            /\ Cross(head[1], head[2], head[3], head[4], <<head[5], head[6]>>) # 0
            /\ head[5] - head[1] >= 1
            /\ head[1] - head[3] >= 1
            /\ head[2] > head[4]
            /\ head[4] = head[6]
            /\ \A k \in {1, 3} :
                  Dist2(body[k], body[k + 1], size) < inner * inner
            /\ \A k \in {1, 3, 5} :
                  Dist2(head[k], head[k + 1], size) < inner * inner

====
